---- MODULE Spec2Model ----
(***************************************************************************)
(* Model of pg_dump_restore.py: one run of the script, from the HTTP fetch *)
(* of the dump to the removal of the container.  The outside world (HTTP   *)
(* service, docker daemon, psql subprocess, PostgreSQL connection) answers *)
(* nondeterministically; every answer is drawn from a small set.           *)
(*                                                                         *)
(* Text is a sequence of tokens: "M" is the literal                        *)
(* "Dumped from database version " (it cannot overlap itself), "1" is a    *)
(* digit, "." a dot and "x" any other character (whitespace included).     *)
(***************************************************************************)
EXTENDS Integers, Sequences, FiniteSets, TLC

VARIABLES
    pc,          \* position of the script
    dump,        \* value returned by get_postgres_dump (encoded dump)
    text,        \* decoded dump (line 107)
    db_version,  \* line 108; <<>> while unassigned
    container,   \* line 113; bound = FALSE while the name is unassigned
    table,       \* rows of public.criminal_records the query read
    results,     \* line 153
    pending,     \* exception in flight while the finally block runs
    trace,       \* stages entered, in order (1..8 as in the overview)
    posted,      \* payloads handed to requests.post
    stdout,      \* what print() wrote
    errlog,      \* logging.error calls, in order
    stopCalls,   \* container.stop() invocations
    removeCalls, \* container.remove() invocations
    calls,       \* stop/remove invocations in order
    db,          \* bookkeeping of the last get_db_records call
    restoreOut,  \* outcome of the restore subprocess
    getResp,     \* answer of the HTTP GET
    postResp,    \* answer of the HTTP POST
    cleanupErr,  \* statement of the finally block that raised, or "none"
    exc,         \* class of the exception last raised and not caught; for
                 \* a call into requests, docker or subprocess, the base
                 \* class of the library (RequestException, DockerException,
                 \* OSError) stands for the subclass raised
    exitKind     \* "running", "ok", "sysexit" (sys.exit(1)), "crash"

vars == <<pc, dump, text, db_version, container, table, results, pending,
          trace, posted, stdout, errlog, stopCalls, removeCalls, calls, db,
          restoreOut, getResp, postResp, cleanupErr, exc, exitKind>>

----------------------------------------------------------------------------
(* Bounds *)
MaxTextLen == 4
MaxRows == 2

(* Program constants *)
HTTP_OK == 200

Alphabet == {"M", "1", ".", "x"}
VersionChars == {"1", "."}
Statuses == {200, 500}
Ssns == {"s1", "s2"}
RowStatuses == {"alive", "deceased"}
ResponseTexts == {"t1", "t2"}

SeqsUpTo(S, n) == UNION {[1..k -> S] : k \in 0..n}
Texts == SeqsUpTo(Alphabet, MaxTextLen)
Rows == [ssn : Ssns, status : RowStatuses]
Tables == SeqsUpTo(Rows, MaxRows)

(* The value of the member "dump", by what line 52 does with it:           *)
(*   "not_str"     not a string (5, null): b64decode raises TypeError      *)
(*   "non_ascii"   a string with a non-ASCII character: b64decode raises   *)
(*                 ValueError                                              *)
(*   "bad_base64"  an ASCII string that is not base64 (wrong padding):     *)
(*                 b64decode raises binascii.Error                         *)
(*   "bad_gzip"    base64 of bytes that are not a gzip stream: zlib.error  *)
(*   "bad_utf8"    base64 of gzip of bytes that are not UTF-8:             *)
(*                 UnicodeDecodeError                                      *)
(*   "ok"          base64 of gzip of the UTF-8 bytes of text               *)
DamagedLayers == {"not_str", "non_ascii", "bad_base64", "bad_gzip", "bad_utf8"}

EncodedDumps ==
    [layer : {"ok"}, text : Texts]
    \cup [layer : DamagedLayers, text : {<<>>}]

NoDump == [layer |-> "none", text |-> <<>>]

(* Bodies of the answer to the GET, by what lines 37-44 do with them:      *)
(*   "not_json"     json.loads raises JSONDecodeError                      *)
(*   "too_deep"     brackets nested beyond the recursion limit:            *)
(*                  json.loads raises RecursionError                       *)
(*   "huge_int"     an integer literal beyond the digit limit of int():    *)
(*                  json.loads raises ValueError                           *)
(*   "non_mapping"  JSON that is not an object: [], null, "s", 5           *)
(*   "no_key"       a JSON object without the member "dump"                *)
(*   "dump"         a JSON object with the member "dump"                   *)
FailingBodies == {"not_json", "too_deep", "huge_int", "non_mapping", "no_key"}

(* Answers of requests.get: the call raises, or a status with a body. *)
GetResponses ==
    [raised : {TRUE}, status : {0}, body : {"none"}, dump : {NoDump}]
    \cup [raised : {FALSE}, status : Statuses, body : FailingBodies, dump : {NoDump}]
    \cup [raised : {FALSE}, status : Statuses, body : {"dump"}, dump : EncodedDumps]

NoGetResp == [raised |-> FALSE, status |-> 0, body |-> "none", dump |-> NoDump]

PostResponses ==
    [raised : {TRUE}, status : {0}, text : {"t1"}]
    \cup [raised : {FALSE}, status : Statuses, text : ResponseTexts]

NoPostResp == [raised |-> FALSE, status |-> 0, text |-> "none"]

NoResults == [kind |-> "unset", alive_ssns |-> <<>>]
PyNone == [kind |-> "None", alive_ssns |-> <<>>]

NoContainer == [bound |-> FALSE, tag |-> <<>>]

NoDb == [called |-> FALSE, failAt |-> "none", opened |-> 0, cursorOpened |-> 0,
         cursorCloses |-> 0, connCloses |-> 0, raised |-> FALSE]

----------------------------------------------------------------------------
(* What lines 35-44 do with the body of a 200 answer. *)
ParseBody(r) ==
    IF r.body = "not_json"
    THEN [kind |-> "sysexit", exc |-> "SystemExit", log |-> <<"json_failed">>, value |-> NoDump]
    ELSE IF r.body = "too_deep"
    THEN [kind |-> "raise", exc |-> "RecursionError", log |-> <<>>, value |-> NoDump]
    ELSE IF r.body = "huge_int"
    THEN [kind |-> "raise", exc |-> "ValueError", log |-> <<>>, value |-> NoDump]
    ELSE IF r.body = "non_mapping"
    THEN [kind |-> "raise", exc |-> "TypeError", log |-> <<>>, value |-> NoDump]
    ELSE IF r.body = "no_key"
    THEN [kind |-> "raise", exc |-> "KeyError", log |-> <<>>, value |-> NoDump]
    ELSE [kind |-> "return", exc |-> "none", log |-> <<>>, value |-> r.dump]

(* get_postgres_dump without the status check of line 29. *)
get_postgres_dump_NoStatusCheck(r) ==
    IF r.raised
    THEN [kind |-> "raise", exc |-> "RequestException", log |-> <<>>, value |-> NoDump]
    ELSE ParseBody(r)

(* get_postgres_dump, lines 21-44 *)
get_postgres_dump(r) ==
    IF r.raised
    THEN [kind |-> "raise", exc |-> "RequestException", log |-> <<>>, value |-> NoDump]
    ELSE IF r.status # HTTP_OK
    THEN [kind |-> "sysexit", exc |-> "SystemExit", log |-> <<"fetch_failed">>, value |-> NoDump]
    ELSE ParseBody(r)

(* decompress_and_decode_dump, lines 47-53 *)
decompress_and_decode_dump(d) ==
    IF d.layer = "ok"
    THEN [kind |-> "return", exc |-> "none", value |-> d.text]
    ELSE [kind |-> "raise",
          exc |-> IF d.layer = "not_str" THEN "TypeError"
                  ELSE IF d.layer = "non_ascii" THEN "ValueError"
                  ELSE IF d.layer = "bad_base64" THEN "binascii.Error"
                  ELSE IF d.layer = "bad_gzip" THEN "zlib.error"
                  ELSE "UnicodeDecodeError",
          value |-> <<>>]

(* The maximal run of version characters that starts at position i. *)
RECURSIVE RunFrom(_, _)
RunFrom(t, i) ==
    IF i > Len(t) \/ t[i] \notin VersionChars
    THEN <<>>
    ELSE <<t[i]>> \o RunFrom(t, i + 1)

(* re.findall(r'(?:Dumped from database version )([0-9\.]+)', t) scanning  *)
(* from position i: non-overlapping matches, left to right, greedy.        *)
RECURSIVE FindAllFrom(_, _)
FindAllFrom(t, i) ==
    IF i > Len(t)
    THEN <<>>
    ELSE IF t[i] = "M" /\ RunFrom(t, i + 1) # <<>>
    THEN <<RunFrom(t, i + 1)>> \o FindAllFrom(t, i + 1 + Len(RunFrom(t, i + 1)))
    ELSE FindAllFrom(t, i + 1)

FindAll(t) == FindAllFrom(t, 1)

(* Version extraction that takes the last match, findall(...)[-1]. *)
ExtractVersion_LastMatch(t) ==
    IF FindAll(t) = <<>>
    THEN [kind |-> "raise", exc |-> "IndexError", value |-> <<>>]
    ELSE [kind |-> "return", exc |-> "none", value |-> FindAll(t)[Len(FindAll(t))]]

(* line 108: findall(...)[0] *)
ExtractVersion(t) ==
    IF FindAll(t) = <<>>
    THEN [kind |-> "raise", exc |-> "IndexError", value |-> <<>>]
    ELSE [kind |-> "return", exc |-> "none", value |-> FindAll(t)[1]]

(* the list comprehension over fetchall() of the fixed query, lines 68-71 *)
RECURSIVE AliveSsns(_)
AliveSsns(rows) ==
    IF rows = <<>>
    THEN <<>>
    ELSE (IF rows[1].status = "alive" THEN <<rows[1].ssn>> ELSE <<>>)
         \o AliveSsns(Tail(rows))

(* get_db_records, lines 55-80.  failAt names the call that raises.  The   *)
(* finally block reads the local names connection and cursor, which are    *)
(* unassigned when connect() or cursor() raised: UnboundLocalError.        *)
get_db_records(failAt, rows) ==
    LET opened == IF failAt = "connect" THEN 0 ELSE 1
        cursorOpened == IF failAt \in {"connect", "cursor"} THEN 0 ELSE 1
        log == IF failAt = "none" THEN <<>> ELSE <<"query_error">>
        finallyRaises == opened = 0 \/ cursorOpened = 0
    IN  [kind |-> IF finallyRaises THEN "raise" ELSE "return",
         exc |-> IF finallyRaises THEN "UnboundLocalError" ELSE "none",
         value |-> IF failAt = "none"
                   THEN [kind |-> "dict", alive_ssns |-> AliveSsns(rows)]
                   ELSE IF finallyRaises THEN NoResults ELSE PyNone,
         log |-> log,
         db |-> [called |-> TRUE, failAt |-> failAt, opened |-> opened,
                 cursorOpened |-> cursorOpened,
                 cursorCloses |-> IF finallyRaises THEN 0 ELSE 1,
                 connCloses |-> IF finallyRaises THEN 0 ELSE 1,
                 raised |-> finallyRaises]]

(* submit_solution that returns the response text whatever the status. *)
submit_solution_NoStatusCheck(r) ==
    IF r.raised
    THEN [kind |-> "raise", exc |-> "RequestException", log |-> <<>>, value |-> "none"]
    ELSE [kind |-> "return", exc |-> "none", log |-> <<>>, value |-> r.text]

(* submit_solution, lines 83-98 *)
submit_solution(r) ==
    IF r.raised
    THEN [kind |-> "raise", exc |-> "RequestException", log |-> <<>>, value |-> "none"]
    ELSE IF r.status # HTTP_OK
    THEN [kind |-> "sysexit", exc |-> "SystemExit", log |-> <<"submit_failed">>, value |-> "none"]
    ELSE [kind |-> "return", exc |-> "none", log |-> <<>>, value |-> r.text]

(* The restore block, lines 129-150: the outcome of subprocess.run.  run() *)
(* is called without check=True, so it raises OSError and its subclasses,  *)
(* never CalledProcessError; the except clause catches CalledProcessError  *)
(* only.                                                                   *)
RestoreOutcomes == {"rc0", "rc1", "OSError"}

restore_block(o) ==
    IF o = "rc0"
    THEN [kind |-> "continue", exc |-> "none", log |-> <<>>]
    ELSE IF o = "rc1"
    THEN [kind |-> "sysexit", exc |-> "SystemExit", log |-> <<"restore_failed">>]
    ELSE IF o = "CalledProcessError"
    THEN [kind |-> "sysexit", exc |-> "SystemExit", log |-> <<"restore_failed">>]
    ELSE [kind |-> "raise", exc |-> o, log |-> <<>>]

(* The exception left in flight by a step that ends in kind k. *)
Pending(k) ==
    IF k = "sysexit" THEN "SystemExit"
    ELSE IF k = "raise" THEN "Exception"
    ELSE "none"

(* How the process ends once the finally block has completed: the pending  *)
(* exception, if any, resumes (lines 163-168).                             *)
ExitAfterFinally(p) ==
    IF p = "SystemExit" THEN "sysexit"
    ELSE IF p = "Exception" THEN "crash"
    ELSE "ok"

(* How the process ends when a step outside the try block ends in kind k   *)
(* (lines 107-110).                                                        *)
ExitOutsideTry(k) == IF k = "sysexit" THEN "sysexit" ELSE "crash"

(* Exit status of the interpreter: sys.exit(1) and an uncaught exception   *)
(* both give 1.                                                            *)
ExitStatus(k) == IF k = "ok" THEN 0 ELSE 1

----------------------------------------------------------------------------
Init ==
    /\ pc = "fetch"
    /\ dump = NoDump
    /\ text = <<>>
    /\ db_version = <<>>
    /\ container = NoContainer
    /\ table = <<>>
    /\ results = NoResults
    /\ pending = "none"
    /\ trace = <<>>
    /\ posted = <<>>
    /\ stdout = <<>>
    /\ errlog = <<>>
    /\ stopCalls = 0
    /\ removeCalls = 0
    /\ calls = <<>>
    /\ db = NoDb
    /\ restoreOut = "none"
    /\ getResp = NoGetResp
    /\ postResp = NoPostResp
    /\ cleanupErr = "none"
    /\ exc = "none"
    /\ exitKind = "running"

(* line 107, inner call: get_postgres_dump(access_token) *)
Fetch ==
    /\ pc = "fetch"
    /\ \E r \in GetResponses :
        LET o == get_postgres_dump(r) IN
        /\ getResp' = r
        /\ trace' = Append(trace, 1)
        /\ errlog' = errlog \o o.log
        /\ exc' = o.exc
        /\ IF o.kind = "return"
           THEN /\ dump' = o.value
                /\ pc' = "decode"
                /\ exitKind' = exitKind
           ELSE /\ dump' = dump
                /\ pc' = "done"
                /\ exitKind' = ExitOutsideTry(o.kind)
    /\ UNCHANGED <<text, db_version, container, table, results, pending,
                   posted, stdout, stopCalls, removeCalls, calls, db,
                   restoreOut, postResp, cleanupErr>>

(* line 107, outer call: decompress_and_decode_dump(...) *)
Decode ==
    /\ pc = "decode"
    /\ LET o == decompress_and_decode_dump(dump) IN
        /\ trace' = Append(trace, 2)
        /\ exc' = o.exc
        /\ IF o.kind = "return"
           THEN /\ text' = o.value
                /\ pc' = "version"
                /\ exitKind' = exitKind
           ELSE /\ text' = text
                /\ pc' = "done"
                /\ exitKind' = ExitOutsideTry(o.kind)
    /\ UNCHANGED <<dump, db_version, container, table, results, pending,
                   posted, stdout, errlog, stopCalls, removeCalls, calls, db,
                   restoreOut, getResp, postResp, cleanupErr>>

(* line 108 *)
Version ==
    /\ pc = "version"
    /\ LET o == ExtractVersion(text) IN
        /\ trace' = Append(trace, 3)
        /\ exc' = o.exc
        /\ IF o.kind = "return"
           THEN /\ db_version' = o.value
                /\ pc' = "client"
                /\ exitKind' = exitKind
           ELSE /\ db_version' = db_version
                /\ pc' = "done"
                /\ exitKind' = ExitOutsideTry(o.kind)
    /\ UNCHANGED <<dump, text, container, table, results, pending, posted,
                   stdout, errlog, stopCalls, removeCalls, calls, db,
                   restoreOut, getResp, postResp, cleanupErr>>

(* line 110: docker.from_env(), outside the try block *)
Client ==
    /\ pc = "client"
    /\ \E ok \in BOOLEAN :
        IF ok
        THEN /\ pc' = "provision"
             /\ UNCHANGED <<exc, exitKind>>
        ELSE /\ pc' = "done"
             /\ exc' = "DockerException"
             /\ exitKind' = ExitOutsideTry("raise")
    /\ UNCHANGED <<dump, text, db_version, container, table, results, pending,
                   trace, posted, stdout, errlog, stopCalls, removeCalls,
                   calls, db, restoreOut, getResp, postResp, cleanupErr>>

(* Provisioning placed before the try block: a failed launch ends the run *)
(* without entering the finally block.                                     *)
Provision_OutsideTry ==
    /\ pc = "provision"
    /\ trace' = Append(trace, 4)
    /\ \E ok \in BOOLEAN :
        IF ok
        THEN /\ container' = [bound |-> TRUE, tag |-> db_version]
             /\ pc' = "restore"
             /\ UNCHANGED <<exc, exitKind>>
        ELSE /\ container' = container
             /\ pc' = "done"
             /\ exc' = "DockerException"
             /\ exitKind' = ExitOutsideTry("raise")
    /\ UNCHANGED <<dump, text, db_version, table, results, posted, stdout,
                   errlog, stopCalls, removeCalls, calls, db, restoreOut,
                   getResp, postResp, cleanupErr, pending>>

(* lines 112-126: client.containers.run(...) inside the try block *)
Provision ==
    /\ pc = "provision"
    /\ trace' = Append(trace, 4)
    /\ \E ok \in BOOLEAN :
        IF ok
        THEN /\ container' = [bound |-> TRUE, tag |-> db_version]
             /\ pc' = "restore"
             /\ UNCHANGED <<exc, pending>>
        ELSE /\ container' = container
             /\ pc' = "finally"
             /\ exc' = "DockerException"
             /\ pending' = Pending("raise")
    /\ UNCHANGED <<dump, text, db_version, table, results, posted, stdout,
                   errlog, stopCalls, removeCalls, calls, db, restoreOut,
                   getResp, postResp, cleanupErr, exitKind>>

(* lines 128-150 *)
Restore ==
    /\ pc = "restore"
    /\ trace' = Append(trace, 5)
    /\ \E o \in RestoreOutcomes :
        LET b == restore_block(o) IN
        /\ restoreOut' = o
        /\ errlog' = errlog \o b.log
        /\ exc' = b.exc
        /\ IF b.kind = "continue"
           THEN /\ pc' = "query"
                /\ pending' = pending
           ELSE /\ pc' = "finally"
                /\ pending' = Pending(b.kind)
    /\ UNCHANGED <<dump, text, db_version, container, table, results, posted, stdout,
                   stopCalls, removeCalls, calls, db, getResp, postResp,
                   cleanupErr, exitKind>>

(* The rows the server holds when the query is read: any table when      *)
(* fetchall() answers, none seen otherwise.                                *)
RowsSeen(failAt) == IF failAt = "none" THEN Tables ELSE {<<>>}

(* lines 153-160: results = get_db_records(...) *)
Query ==
    /\ pc = "query"
    /\ trace' = Append(trace, 6)
    /\ \E failAt \in {"none", "connect", "cursor", "execute", "fetch"} :
      \E rows \in RowsSeen(failAt) :
        LET o == get_db_records(failAt, rows) IN
        /\ table' = rows
        /\ db' = o.db
        /\ errlog' = errlog \o o.log
        /\ exc' = o.exc
        /\ IF o.kind = "return"
           THEN /\ results' = o.value
                /\ pc' = "submit"
                /\ pending' = pending
           ELSE /\ results' = results
                /\ pc' = "finally"
                /\ pending' = Pending(o.kind)
    /\ UNCHANGED <<dump, text, db_version, container, posted, stdout,
                   stopCalls, removeCalls, calls, restoreOut, getResp,
                   postResp, cleanupErr, exitKind>>

(* line 161: print(submit_solution(access_token, results)) *)
Submit ==
    /\ pc = "submit"
    /\ trace' = Append(trace, 7)
    /\ posted' = Append(posted, results)
    /\ \E r \in PostResponses :
        LET o == submit_solution(r) IN
        /\ postResp' = r
        /\ errlog' = errlog \o o.log
        /\ exc' = o.exc
        /\ stdout' = IF o.kind = "return" THEN Append(stdout, o.value) ELSE stdout
        /\ pending' = Pending(o.kind)
        /\ pc' = "finally"
    /\ UNCHANGED <<dump, text, db_version, container, table, results,
                   stopCalls, removeCalls, calls, db, restoreOut, getResp,
                   cleanupErr, exitKind>>

(* container bound to a placeholder before the try block: reading it in   *)
(* the finally block never raises.                                         *)
HandleMissing_Never(c) == FALSE

(* Whether evaluating container.id on line 164 raises NameError. *)
HandleMissing(c) == ~c.bound

(* Cleanup in an "except Exception" handler instead of a finally block:    *)
(* SystemExit passes it by.                                                *)
FinallyRuns_NotOnSystemExit(p) == p # "SystemExit"

(* try/finally, lines 112 and 163: the finally block runs whatever left    *)
(* the try block, a SystemExit raised by sys.exit(1) included.             *)
FinallyRuns(p) == TRUE

(* lines 163-164: the finally block is entered and reads container.id *)
Finally ==
    /\ pc = "finally"
    /\ IF ~FinallyRuns(pending)
       THEN /\ pc' = "done"
            /\ exitKind' = ExitAfterFinally(pending)
            /\ UNCHANGED <<trace, cleanupErr, exc>>
       ELSE /\ trace' = Append(trace, 8)
            /\ IF HandleMissing(container)
               THEN /\ pc' = "done"
                    /\ cleanupErr' = "handle"
                    /\ exc' = "NameError"
                    /\ exitKind' = "crash"
               ELSE /\ pc' = "stop"
                    /\ UNCHANGED <<cleanupErr, exc, exitKind>>
    /\ UNCHANGED <<dump, text, db_version, container, table, results, pending,
                   posted, stdout, errlog, stopCalls, removeCalls, calls, db,
                   restoreOut, getResp, postResp>>

(* line 165: container.stop() *)
Stop ==
    /\ pc = "stop"
    /\ stopCalls' = stopCalls + 1
    /\ calls' = Append(calls, "stop")
    /\ \E ok \in BOOLEAN :
        IF ok
        THEN /\ pc' = "remove"
             /\ UNCHANGED <<cleanupErr, exc, exitKind>>
        ELSE /\ pc' = "done"
             /\ cleanupErr' = "stop"
             /\ exc' = "DockerException"
             /\ exitKind' = "crash"
    /\ UNCHANGED <<dump, text, db_version, container, table, results, pending,
                   trace, posted, stdout, errlog, removeCalls, db, restoreOut,
                   getResp, postResp>>

(* line 168: container.remove(), then the pending exception resumes *)
Remove ==
    /\ pc = "remove"
    /\ removeCalls' = removeCalls + 1
    /\ calls' = Append(calls, "remove")
    /\ pc' = "done"
    /\ \E ok \in BOOLEAN :
        IF ok
        THEN /\ UNCHANGED <<cleanupErr, exc>>
             /\ exitKind' = ExitAfterFinally(pending)
        ELSE /\ cleanupErr' = "remove"
             /\ exc' = "DockerException"
             /\ exitKind' = "crash"
    /\ UNCHANGED <<dump, text, db_version, container, table, results, pending,
                   trace, posted, stdout, errlog, stopCalls, db, restoreOut,
                   getResp, postResp>>

Next ==
    \/ Fetch
    \/ Decode
    \/ Version
    \/ Client
    \/ Provision
    \/ Restore
    \/ Query
    \/ Submit
    \/ Finally
    \/ Stop
    \/ Remove

Spec == Init /\ [][Next]_vars

----------------------------------------------------------------------------
(* Vocabulary of the properties *)

Done == pc = "done"
Provisioned == container.bound
InCleanupOrAfter == pc \in {"finally", "stop", "remove", "done"}

(* No stage after the version extraction has acted. *)
NothingProvisioned ==
    /\ ~container.bound
    /\ 4 \notin {trace[i] : i \in DOMAIN trace}
    /\ restoreOut = "none"
    /\ ~db.called
    /\ posted = <<>>

NoCleanupInvoked ==
    /\ stopCalls = 0
    /\ removeCalls = 0
    /\ calls = <<>>
    /\ 8 \notin {trace[i] : i \in DOMAIN trace}

Stages(tr) == {tr[i] : i \in DOMAIN tr}

----------------------------------------------------------------------------
(* C1 as stated: in every run in which the instance was provisioned, stop  *)
(* and remove have each been invoked exactly once when the process         *)
(* terminates, stop before remove.                                         *)
C1_Original ==
    (Done /\ Provisioned) => calls = <<"stop", "remove">>

(* C1, amended: in every run in which the instance was provisioned,        *)
(* whatever the outcome of restore, query and submit, stop has been        *)
(* invoked exactly once when the process terminates; remove has been       *)
(* invoked exactly once, after stop, when stop returned, and not at all    *)
(* when stop raised.  Neither is ever invoked twice.                       *)
C1_CleanupAlways ==
    /\ stopCalls <= 1 /\ removeCalls <= 1
    /\ (Done /\ Provisioned) =>
        /\ stopCalls = 1
        /\ IF cleanupErr = "stop"
           THEN calls = <<"stop">> /\ removeCalls = 0
           ELSE calls = <<"stop", "remove">> /\ removeCalls = 1

C1_Witness ==
    /\ Done /\ Provisioned
    /\ restoreOut = "rc1" /\ pending = "SystemExit"
    /\ calls = <<"stop", "remove">>
    /\ exitKind = "sysexit"

----------------------------------------------------------------------------
FetchAnswered == getResp # NoGetResp /\ ~getResp.raised

NothingAfterFetch ==
    /\ Done
    /\ trace = <<1>>
    /\ NothingProvisioned /\ NoCleanupInvoked

(* C2 as stated: a non-200 answer, or a 200 answer whose body is not of    *)
(* the form {"dump": ...}, ends the process by sys.exit(1) after an error  *)
(* was logged, and nothing is provisioned, restored, queried, posted or    *)
(* cleaned up.                                                             *)
C2_Original ==
    (FetchAnswered /\ (getResp.status # HTTP_OK \/ getResp.body \in FailingBodies)) =>
        /\ Done /\ exitKind = "sysexit" /\ Len(errlog) = 1
        /\ NothingProvisioned /\ NoCleanupInvoked

(* C2, amended: a non-200 answer, or a 200 answer on whose body json.loads *)
(* raises JSONDecodeError, ends the process by sys.exit(1) (status 1)      *)
(* after one error was logged.  A 200 answer whose body makes json.loads   *)
(* raise another error (RecursionError on too deep a nesting, ValueError   *)
(* on too long an integer), or parses to a value without a member "dump"   *)
(* (TypeError when it is not an object, KeyError when it is an object      *)
(* without the key), ends the process with that error uncaught (status 1)  *)
(* and no error logged.  In all these cases nothing is provisioned,        *)
(* restored, queried, posted or cleaned up.                                *)
C2_FetchFailure ==
    /\ (FetchAnswered /\ (getResp.status # HTTP_OK \/ getResp.body = "not_json")) =>
        /\ exitKind = "sysexit" /\ exc = "SystemExit"
        /\ ExitStatus(exitKind) = 1
        /\ errlog = IF getResp.status # HTTP_OK
                    THEN <<"fetch_failed">> ELSE <<"json_failed">>
        /\ NothingAfterFetch
    /\ (FetchAnswered /\ getResp.status = HTTP_OK
            /\ getResp.body \in {"too_deep", "huge_int", "non_mapping", "no_key"}) =>
        /\ exitKind = "crash"
        /\ exc = IF getResp.body = "too_deep" THEN "RecursionError"
                 ELSE IF getResp.body = "huge_int" THEN "ValueError"
                 ELSE IF getResp.body = "non_mapping" THEN "TypeError"
                 ELSE "KeyError"
        /\ ExitStatus(exitKind) = 1
        /\ errlog = <<>>
        /\ NothingAfterFetch

C2_Witness ==
    /\ Done /\ FetchAnswered
    /\ getResp.status = HTTP_OK /\ getResp.body = "not_json"
    /\ exitKind = "sysexit" /\ errlog = <<"json_failed">>

----------------------------------------------------------------------------
(* C3: whenever the restore step fails, by a non-zero exit code of the     *)
(* client or by an error raised when the subprocess is invoked, the        *)
(* failure is logged and the process ends by sys.exit(1) (here: when the   *)
(* cleanup itself succeeded); the query is never run and nothing is        *)
(* posted.                                                                 *)
C3_RestoreFailure ==
    (restoreOut \in {"rc1", "OSError"}) =>
        /\ errlog = <<"restore_failed">>
        /\ pending = "SystemExit"
        /\ ~db.called /\ posted = <<>>
        /\ (Done /\ cleanupErr = "none") => exitKind = "sysexit"

----------------------------------------------------------------------------
PostAnswered == postResp # NoPostResp /\ ~postResp.raised

(* C4: when the POST is answered with a non-200 status, submit_solution    *)
(* ends the process with status 1 and nothing is printed; when it is       *)
(* answered with 200, the response text is printed unchanged exactly once  *)
(* and, the cleanup succeeding, the process exits with status 0.           *)
C4_SubmitOutcome ==
    /\ (PostAnswered /\ postResp.status # HTTP_OK) =>
        /\ pending = "SystemExit"
        /\ stdout = <<>>
        /\ Done => ExitStatus(exitKind) = 1
    /\ (PostAnswered /\ postResp.status = HTTP_OK) =>
        /\ stdout = <<postResp.text>>
        /\ (Done /\ cleanupErr = "none") => ExitStatus(exitKind) = 0

C4_Witness ==
    /\ Done /\ PostAnswered /\ postResp.status = HTTP_OK
    /\ postResp.text = "t2" /\ stdout = <<"t2">>
    /\ cleanupErr = "none" /\ exitKind = "ok"

----------------------------------------------------------------------------
(* Stages 1..7 entered in order, each once, none skipped; stage 8, when    *)
(* entered, entered last and once.                                         *)
InOrder(tr) ==
    \E k \in 0..7 :
        \/ tr = [i \in 1..k |-> i]
        \/ tr = [i \in 1..(k + 1) |-> IF i <= k THEN i ELSE 8]

(* C5 as stated: the stages run in order, each at most once, and the       *)
(* cleanup is the final step of every run.                                 *)
C5_Original ==
    /\ InOrder(trace)
    /\ Done => (trace # <<>> /\ trace[Len(trace)] = 8)

(* C5, amended: the stages run in the order fetch, decode, version         *)
(* extraction, provision, restore, query, submit, each at most once and    *)
(* none before its predecessor finished; the cleanup is the final step of  *)
(* every run that reached the container launch, whatever the outcome of    *)
(* stages 4 to 7, and is not executed in a run that ended before it.       *)
C5_ControlFlow ==
    /\ InOrder(trace)
    /\ (8 \in Stages(trace)) => (4 \in Stages(trace) /\ trace[Len(trace)] = 8)
    /\ Done => ((4 \in Stages(trace)) <=> (8 \in Stages(trace)))

C5_Witness ==
    /\ Done
    /\ trace = <<1, 2, 3, 4, 5, 6, 7, 8>>
    /\ exitKind = "ok"

----------------------------------------------------------------------------
(* C6: every payload handed to the submitter is a mapping with the key     *)
(* alive_ssns whose value is the ssn of the rows with status 'alive', in   *)
(* the order of the server; no other payload is posted.                    *)
C6_PayloadShape ==
    \A i \in DOMAIN posted :
        /\ posted[i].kind = "dict"
        /\ posted[i].alive_ssns = AliveSsns(table)

----------------------------------------------------------------------------
(* C7: on any connection or query error in get_db_records the error is     *)
(* logged, the function returns without raising, and the run goes on to    *)
(* the submitter, which posts the empty payload.                           *)
C7_SilentQueryFailure ==
    (db.called /\ db.failAt # "none") =>
        /\ "query_error" \in {errlog[i] : i \in DOMAIN errlog}
        /\ ~db.raised
        /\ results = PyNone
        /\ InCleanupOrAfter => posted = <<PyNone>>

----------------------------------------------------------------------------
LaunchFailed == 4 \in Stages(trace) /\ ~container.bound /\ pc # "restore"

(* C8: when launching the instance raises, restore, query and submit are   *)
(* never executed, the cleanup block is entered but its reference to the   *)
(* missing handle fails, neither stop nor remove is invoked, and the       *)
(* process ends with an uncaught error.                                    *)
C8_InstanceStartFailure ==
    LaunchFailed =>
        /\ restoreOut = "none" /\ ~db.called /\ posted = <<>>
        /\ Stages(trace) \cap {5, 6, 7} = {}
        /\ stopCalls = 0 /\ removeCalls = 0 /\ calls = <<>>
        /\ InCleanupOrAfter
        /\ Done =>
            /\ trace = <<1, 2, 3, 4, 8>>
            /\ cleanupErr = "handle"
            /\ exitKind = "crash" /\ ExitStatus(exitKind) # 0

C8_Witness ==
    /\ Done /\ LaunchFailed
    /\ trace = <<1, 2, 3, 4, 8>>
    /\ exitKind = "crash"

----------------------------------------------------------------------------
(* C9: on every path through get_db_records on which the connection was    *)
(* opened, the cursor and the connection are each closed exactly once; on  *)
(* a path on which it was not, no close is attempted and the cleanup block *)
(* raises no error.                                                        *)
C9_ConnectionRelease ==
    db.called =>
        /\ (db.opened = 1) => (db.cursorCloses = 1 /\ db.connCloses = 1)
        /\ (db.opened = 0) =>
            (db.cursorCloses = 0 /\ db.connCloses = 0 /\ ~db.raised)

----------------------------------------------------------------------------
Markers(t) == {i \in DOMAIN t : t[i] = "M"}
FirstMarker(t) == CHOOSE i \in Markers(t) : \A j \in Markers(t) : i <= j

(* The maximal stretch of version characters from position i on. *)
Stretch(t, i) ==
    LET ends == {j \in (i - 1)..Len(t) :
                    /\ \A k \in i..j : t[k] \in VersionChars
                    /\ (j < Len(t) => t[j + 1] \notin VersionChars)}
        e == CHOOSE j \in ends : \A k \in ends : j <= k
    IN  [n \in 1..(e - i + 1) |-> t[i + n - 1]]

VersionedMarkers(t) ==
    {i \in Markers(t) : i < Len(t) /\ t[i + 1] \in VersionChars}
FirstVersionedMarker(t) ==
    CHOOSE i \in VersionedMarkers(t) : \A j \in VersionedMarkers(t) : i <= j

VersionDone == 3 \in Stages(trace)

(* C10 as stated: the image tag is the digits-and-dots string that follows *)
(* the first occurrence of the marker in the decoded dump.                 *)
C10_Original ==
    Provisioned =>
        /\ Markers(text) # {}
        /\ container.tag = Stretch(text, FirstMarker(text) + 1)

(* C10, amended: an instance is provisioned only after the version         *)
(* extraction succeeded, and its image tag is the digits-and-dots string   *)
(* that follows the first occurrence of the marker that is immediately     *)
(* followed by a digit or a dot; when the decoded dump has no such         *)
(* occurrence the process crashes at the version extraction, and nothing   *)
(* is provisioned, restored, queried, posted or cleaned up.                *)
C10_VersionGating ==
    /\ (4 \in Stages(trace)) => (VersionDone /\ db_version # <<>>)
    /\ Provisioned =>
        /\ VersionedMarkers(text) # {}
        /\ container.tag = Stretch(text, FirstVersionedMarker(text) + 1)
        /\ container.tag = db_version
    /\ (VersionDone /\ VersionedMarkers(text) = {}) =>
        /\ Done /\ exitKind = "crash"
        /\ trace = <<1, 2, 3>>
        /\ NothingProvisioned /\ NoCleanupInvoked

C10_Witness ==
    /\ Provisioned
    /\ Cardinality(VersionedMarkers(text)) = 2
    /\ text = <<"M", "1", "M", ".">>
    /\ container.tag = <<"1">>

====
